---- MODULE Spec2Model ----
(***************************************************************************)
(* Verification model of the trading-signal backend:                       *)
(*   backend/ict_analysis.py     (ICTAnalysis)                             *)
(*   backend/entry_systems.py    (EntrySystems)                            *)
(*   backend/risk_management.py  (RiskManagement)                          *)
(*                                                                         *)
(* Real numbers are exact rationals [k, n, d]; k distinguishes an ordinary *)
(* number ("num") from the IEEE/pandas outcomes NaN ("nan") and +-inf      *)
(* ("inf").  Any comparison with NaN is false, as in numpy.  Prices and    *)
(* volumes of the inputs are integers, for which the float arithmetic of   *)
(* the source is exact at the comparisons the model makes.                 *)
(***************************************************************************)
EXTENDS Integers, Sequences, FiniteSets, TLC

VARIABLES
    position,   \* trailing-stop scenario: the open position [entry_price, atr, direction]
    stops,      \* trailing-stop scenario: calls made so far, <<[price, stop], ...>>
    sizing,     \* last calculate_position_size call: [called, args, result]
    data,       \* the DataFrame self.data: a sequence of bars
    out,        \* last call on the series: [op, status, val]
    signals,    \* caller-assembled history of signal records
    metrics,    \* last calculate_portfolio_metrics call: [called, input, result]
    frame,      \* the DataFrame object a caller holds: [columns, index, timestamp_dtype, rows]
    objects     \* the classes constructed on frame so far

vars == <<position, stops, sizing, data, out, signals, metrics, frame, objects>>

\* no DataFrame is held by a caller
NoFrame == [columns |-> {}, index |-> "none", timestamp_dtype |-> "none", rows |-> <<>>]

-----------------------------------------------------------------------------
(* Exact arithmetic with NaN / inf                                         *)

Abs(x) == IF x < 0 THEN -x ELSE x

RECURSIVE GCD(_, _)
GCD(a, b) == IF b = 0 THEN a ELSE GCD(b, a % b)

NaN == [k |-> "nan", n |-> 0, d |-> 1]
Inf(s) == [k |-> "inf", n |-> s, d |-> 1]

\* n/d in lowest terms with a positive denominator; x/0 follows numpy.
Rat(n, d) ==
    IF d = 0 THEN (IF n = 0 THEN NaN ELSE Inf(IF n > 0 THEN 1 ELSE -1))
    ELSE LET g == GCD(Abs(n), Abs(d))
             s == IF d < 0 THEN -1 ELSE 1
         IN [k |-> "num", n |-> (s * n) \div g, d |-> (s * d) \div g]

R(i) == [k |-> "num", n |-> i, d |-> 1]
IsNum(x) == x.k = "num"
IsNaN(x) == x.k = "nan"

RNeg(x) == IF IsNum(x) THEN Rat(-x.n, x.d) ELSE IF IsNaN(x) THEN NaN ELSE Inf(-x.n)
RAdd(x, y) ==
    IF IsNaN(x) \/ IsNaN(y) THEN NaN
    ELSE IF IsNum(x) /\ IsNum(y) THEN Rat(x.n * y.d + y.n * x.d, x.d * y.d)
    ELSE IF IsNum(x) THEN y
    ELSE IF IsNum(y) THEN x
    ELSE IF x.n = y.n THEN x ELSE NaN
RSub(x, y) == RAdd(x, RNeg(y))
Sign(x) == IF x.n > 0 THEN 1 ELSE IF x.n < 0 THEN -1 ELSE 0
RMul(x, y) ==
    IF IsNaN(x) \/ IsNaN(y) THEN NaN
    ELSE IF IsNum(x) /\ IsNum(y) THEN Rat(x.n * y.n, x.d * y.d)
    ELSE IF Sign(x) * Sign(y) = 0 THEN NaN ELSE Inf(Sign(x) * Sign(y))
RDiv(x, y) ==
    IF IsNaN(x) \/ IsNaN(y) THEN NaN
    ELSE IF IsNum(x) /\ IsNum(y) THEN Rat(x.n * y.d, x.d * y.n)
    ELSE IF IsNum(y) THEN Inf(Sign(x) * (IF y.n < 0 THEN -1 ELSE 1))
    ELSE IF IsNum(x) THEN R(0) ELSE NaN
RAbs(x) == IF IsNum(x) THEN Rat(Abs(x.n), x.d) ELSE IF IsNaN(x) THEN NaN ELSE Inf(1)

\* x < y; false whenever NaN is involved
RLt(x, y) ==
    IF IsNaN(x) \/ IsNaN(y) THEN FALSE
    ELSE IF IsNum(x) /\ IsNum(y) THEN x.n * y.d < y.n * x.d
    ELSE IF IsNum(x) THEN y.n > 0
    ELSE IF IsNum(y) THEN x.n < 0
    ELSE x.n < y.n
RGt(x, y) == RLt(y, x)
RLe(x, y) == ~IsNaN(x) /\ ~IsNaN(y) /\ ~RLt(y, x)
RGe(x, y) == RLe(y, x)
\* Python's max(a, b) / min(a, b): the first argument unless the second beats it
RMax(x, y) == IF RGt(y, x) THEN y ELSE x
RMin(x, y) == IF RLt(y, x) THEN y ELSE x

-----------------------------------------------------------------------------
(* RiskManagement.calculate_trailing_stop                                  *)

calculate_trailing_stop(entry_price, current_price, direction, atr) ==
    IF direction = "long"
    THEN LET profit == RSub(current_price, entry_price)
         IN IF RGe(profit, atr)
            THEN RMax(entry_price, RSub(current_price, atr))
            ELSE RSub(entry_price, RMul(Rat(3, 2), atr))
    ELSE LET profit == RSub(entry_price, current_price)
         IN IF RGe(profit, atr)
            THEN RMin(entry_price, RAdd(current_price, atr))
            ELSE RAdd(entry_price, RMul(Rat(3, 2), atr))

\* bound: number of successive trailing-stop evaluations of one position
MaxCalls == 3

TrailEntries == {100}
TrailAtrs == {1, 2, 3}
TrailPrices == 95 .. 105

InitTrail ==
    /\ position \in [entry_price : TrailEntries, atr : TrailAtrs,
                     direction : {"long", "short"}]
    /\ stops = <<>>
    /\ sizing = [called |-> FALSE]
    /\ data = <<>>
    /\ out = [op |-> "none"]
    /\ signals = <<>>
    /\ metrics = [called |-> FALSE]
    /\ frame = NoFrame
    /\ objects = {}

\* One price update: the caller re-evaluates the stop of the open position.
TrailingStopCall ==
    /\ Len(stops) < MaxCalls
    /\ \E p \in TrailPrices :
          stops' = Append(stops,
                     [price |-> p,
                      stop |-> calculate_trailing_stop(R(position.entry_price), R(p),
                                   position.direction, R(position.atr))])
    /\ UNCHANGED <<position, sizing, data, out, signals, metrics, frame, objects>>

NextTrail == TrailingStopCall

SpecTrail == InitTrail /\ [][NextTrail]_vars

\* the breakeven lock is active at call i (long: current - entry >= ATR)
LockActive(i) ==
    IF position.direction = "long"
    THEN stops[i].price - position.entry_price >= position.atr
    ELSE position.entry_price - stops[i].price >= position.atr

\* C1: for a long position, once a call was made with the breakeven lock
\* active, every later call with a lower price that still has the lock active
\* returns a stop not below the stop of the earlier call (monotonic ratchet).
C1_Ratchet ==
    position.direction = "long" =>
        \A i, j \in 1 .. Len(stops) :
            (i < j /\ LockActive(i) /\ LockActive(j) /\ stops[j].price < stops[i].price)
                => RGe(stops[j].stop, stops[i].stop)

-----------------------------------------------------------------------------
(* RiskManagement.calculate_position_size                                  *)

None == [k |-> "none", n |-> 0, d |-> 1]
IsNone(x) == x.k = "none"

default_balance == 10000
default_risk_percent == Rat(1, 100)
max_daily_risk == Rat(5, 100)

\* self.pip_values
pip_values == [XAUUSD |-> Rat(1, 100), NASDAQ |-> R(1)]

\* a plausible slip: the cap on the risk percent is left out
ClampRiskUnclamped(risk_percent) == risk_percent

\* risk_percent = min(risk_percent, 0.02)
ClampRisk(risk_percent) == RMin(risk_percent, Rat(2, 100))

\* The arguments are Python floats: a zero stop distance raises
\* ZeroDivisionError, an asset missing from pip_values raises KeyError.
calculate_position_size(asset, entry_price, stop_loss, balance_arg, risk_arg) ==
    LET balance == IF IsNone(balance_arg) THEN R(default_balance) ELSE balance_arg
        risk_percent == ClampRisk(IF IsNone(risk_arg) THEN default_risk_percent
                                  ELSE risk_arg)
        stop_loss_distance == RAbs(RSub(entry_price, stop_loss))
    IN IF asset \notin DOMAIN pip_values THEN [status |-> "KeyError"]
       ELSE LET pip_value == pip_values[asset]
                risk_amount == RMul(balance, risk_percent)
                divisor == RMul(stop_loss_distance, pip_value)
            IN IF divisor = R(0) THEN [status |-> "ZeroDivisionError"]
               ELSE [status |-> "ok",
                     position_size |-> RDiv(risk_amount, divisor),
                     risk_amount |-> risk_amount,
                     stop_loss_distance |-> stop_loss_distance,
                     pip_value |-> pip_value]

SizeAssets == {"XAUUSD", "NASDAQ", "EURUSD"}
SizeEntries == {R(1000), R(1010)}
SizeStopLosses == {R(990), R(1000), R(1010)}
SizeBalances == {None, R(5000), R(20000)}
SizeRisks == {None, Rat(5, 1000), Rat(1, 100), Rat(2, 100), Rat(3, 100), Rat(5, 100)}

InitSize ==
    /\ position = [entry_price |-> 100, atr |-> 1, direction |-> "long"]
    /\ stops = <<>>
    /\ sizing = [called |-> FALSE]
    /\ data = <<>>
    /\ out = [op |-> "none"]
    /\ signals = <<>>
    /\ metrics = [called |-> FALSE]
    /\ frame = NoFrame
    /\ objects = {}

PositionSizeCall ==
    /\ \E a \in SizeAssets, e \in SizeEntries, s \in SizeStopLosses,
          b \in SizeBalances, rp \in SizeRisks :
          sizing' = [called |-> TRUE,
                     args |-> [asset |-> a, entry_price |-> e, stop_loss |-> s,
                               balance |-> b, risk_percent |-> rp],
                     result |-> calculate_position_size(a, e, s, b, rp)]
    /\ UNCHANGED <<position, stops, data, out, signals, metrics, frame, objects>>

NextSize == PositionSizeCall

SpecSize == InitSize /\ [][NextSize]_vars

\* C2: for a known asset and entry # stop, every requested risk percent
\* >= 0.02 yields the position_size and risk_amount of risk percent 0.02, and
\* risk_amount never exceeds 2% of the (effective) balance.
C2_RiskClamped ==
    (sizing.called /\ sizing.args.asset \in DOMAIN pip_values
                   /\ sizing.args.entry_price # sizing.args.stop_loss) =>
        LET a == sizing.args
            at2 == calculate_position_size(a.asset, a.entry_price, a.stop_loss,
                                           a.balance, Rat(2, 100))
            bal == IF IsNone(a.balance) THEN R(default_balance) ELSE a.balance
        IN /\ sizing.result.status = "ok"
           /\ (~IsNone(a.risk_percent) /\ RGe(a.risk_percent, Rat(2, 100))) =>
                 /\ sizing.result.position_size = at2.position_size
                 /\ sizing.result.risk_amount = at2.risk_amount
           /\ RLe(sizing.result.risk_amount, RMul(Rat(2, 100), bal))

\* a call asking for 5% risk on a known asset that returned a size
C2_Witness ==
    /\ sizing.called
    /\ sizing.args.risk_percent = Rat(5, 100)
    /\ sizing.args.asset = "XAUUSD"
    /\ sizing.result.status = "ok"
    /\ sizing.result.risk_amount = RMul(Rat(2, 100), sizing.args.balance)

-----------------------------------------------------------------------------
(* The price series (self.data) and the rolling-window primitives          *)
(*                                                                         *)
(* A bar is [open, high, low, close, volume, q]; q is the quarter of the   *)
(* current wall-clock year whose date range holds the bar's timestamp      *)
(* (1..4), or 0 when the timestamp lies in none of the four ranges.        *)
(* The position of a bar in the sequence stands for its timestamp.         *)

atr_period == 20

IndexError == [k |-> "IndexError", n |-> 0, d |-> 1]
Raised(x) == x.k = "IndexError"

Max2(a, b) == IF a >= b THEN a ELSE b
Min2(a, b) == IF a <= b THEN a ELSE b

\* data.tail(k)
tail(d, k) == SubSeq(d, Max2(1, Len(d) - k + 1), Len(d))
\* s.iloc[-j] for j >= 1 (the caller checks Len(s) >= j, else IndexError)
ILoc(s, j) == s[Len(s) - j + 1]

RECURSIVE SumOver(_, _, _)
\* sum of the integer sequence s over positions lo..hi
SumOver(s, lo, hi) == IF lo > hi THEN 0 ELSE s[hi] + SumOver(s, lo, hi - 1)

RECURSIVE MaxOver(_, _, _)
MaxOver(s, lo, hi) == IF lo = hi THEN s[lo] ELSE Max2(s[hi], MaxOver(s, lo, hi - 1))
RECURSIVE MinOver(_, _, _)
MinOver(s, lo, hi) == IF lo = hi THEN s[lo] ELSE Min2(s[hi], MinOver(s, lo, hi - 1))

Highs(d) == [i \in 1 .. Len(d) |-> d[i].high]
Lows(d) == [i \in 1 .. Len(d) |-> d[i].low]
Opens(d) == [i \in 1 .. Len(d) |-> d[i].open]
Closes(d) == [i \in 1 .. Len(d) |-> d[i].close]
Volumes(d) == [i \in 1 .. Len(d) |-> d[i].volume]

\* Series.max() / .min() / .mean(): NaN on an empty series
SeriesMax(s) == IF Len(s) = 0 THEN NaN ELSE R(MaxOver(s, 1, Len(s)))
SeriesMin(s) == IF Len(s) = 0 THEN NaN ELSE R(MinOver(s, 1, Len(s)))
SeriesMean(s) == IF Len(s) = 0 THEN NaN ELSE Rat(SumOver(s, 1, Len(s)), Len(s))

\* s.rolling(window=w).mean() at position i: NaN until w observations exist
RollingMeanAt(s, w, i) == IF i < w THEN NaN ELSE Rat(SumOver(s, i - w + 1, i), w)

\* a plausible slip: the first bar, which has no previous close, gets no true range
\* and so the window ending 20 bars in is still incomplete (skipna left out)
TrueRangeStrict(d, i) ==
    IF i = 1 THEN 0
    ELSE Max2(d[i].high - d[i].low,
              Max2(Abs(d[i].high - d[i - 1].close), Abs(d[i].low - d[i - 1].close)))

\* pd.concat([tr1, tr2, tr3], axis=1).max(axis=1): max skips the NaN that
\* close.shift(1) leaves in tr2 and tr3 of the first bar
TrueRange(d, i) ==
    IF i = 1 THEN d[i].high - d[i].low
    ELSE Max2(d[i].high - d[i].low,
              Max2(Abs(d[i].high - d[i - 1].close), Abs(d[i].low - d[i - 1].close)))

TrueRanges(d) == [i \in 1 .. Len(d) |-> TrueRange(d, i)]

\* EntrySystems.calculate_atr: atr.iloc[-1] raises IndexError on an empty frame
calculate_atr(d) ==
    IF Len(d) = 0 THEN IndexError
    ELSE RollingMeanAt(TrueRanges(d), atr_period, Len(d))

\* RiskManagement.calculate_atr (the same code, kept by the risk engine)
risk_calculate_atr(d) ==
    IF Len(d) = 0 THEN IndexError
    ELSE RollingMeanAt(TrueRanges(d), atr_period, Len(d))

\* ICTAnalysis.calculate_sma_slope
calculate_sma_slope(d, period) ==
    IF Len(d) < 2 THEN R(0)
    ELSE LET sma_last == RollingMeanAt(Closes(d), period, Len(d))
             sma_prev == RollingMeanAt(Closes(d), period, Len(d) - 1)
         IN RDiv(RSub(sma_last, sma_prev), sma_prev)

\* EntrySystems.is_volatile: [raised, val]
is_volatile(d) ==
    LET current_atr == calculate_atr(d)
        \* rolling 20-bar max high minus rolling 20-bar min low, where defined
        span == [i \in atr_period .. Len(d) |->
                    MaxOver(Highs(d), i - atr_period + 1, i)
                  - MinOver(Lows(d), i - atr_period + 1, i)]
        RECURSIVE SpanSum(_)
        SpanSum(i) == IF i < atr_period THEN 0 ELSE span[i] + SpanSum(i - 1)
        avg == IF Len(d) < atr_period THEN NaN
               ELSE Rat(SpanSum(Len(d)), Len(d) - atr_period + 1)
    IN IF Raised(current_atr) THEN [raised |-> TRUE, val |-> FALSE]
       ELSE [raised |-> FALSE, val |-> RGt(current_atr, avg)]

\* ICTAnalysis.get_quarterly_levels: high/low per quarter, 0 for a quarter
\* (or a year) without bars
get_quarterly_levels(d) ==
    LET in(q) == {i \in 1 .. Len(d) : d[i].q = q}
        hi(q) == IF in(q) = {} THEN 0
                 ELSE CHOOSE x \in {d[i].high : i \in in(q)} :
                          \A y \in {d[i].high : i \in in(q)} : y <= x
        lo(q) == IF in(q) = {} THEN 0
                 ELSE CHOOSE x \in {d[i].low : i \in in(q)} :
                          \A y \in {d[i].low : i \in in(q)} : x <= y
    IN [q1_high |-> hi(1), q1_low |-> lo(1), q2_high |-> hi(2), q2_low |-> lo(2),
        q3_high |-> hi(3), q3_low |-> lo(3), q4_high |-> hi(4), q4_low |-> lo(4)]

\* a plausible slip: the bias follows the SMA slope alone
determine_bias_slope_only(d) ==
    IF RGt(calculate_sma_slope(d, 20), R(0)) THEN "bullish"
    ELSE IF RLt(calculate_sma_slope(d, 20), R(0)) THEN "bearish"
    ELSE "neutral"

\* ICTAnalysis.determine_bias (called on a non-empty frame)
determine_bias(d) ==
    LET levels == get_quarterly_levels(d)
        current_price == ILoc(Closes(d), 1)
        sma_slope == calculate_sma_slope(d, 20)
    IN IF current_price > levels.q2_high /\ RGt(sma_slope, R(0)) THEN "bullish"
       ELSE IF current_price < levels.q3_low /\ RLt(sma_slope, R(0)) THEN "bearish"
       ELSE "neutral"

-----------------------------------------------------------------------------
(* ICTAnalysis.find_liquidity_pools and the entry systems                  *)

\* s.iloc[-a:-b] for a > b >= 1: negative positions clip at the start
ISlice(s, a, b) == SubSeq(s, Max2(0, Len(s) - a) + 1, Max2(0, Len(s) - b))

\* abs(x - anchor) / anchor <= threshold
WithinThreshold(x, anchor, threshold) ==
    RLe(RDiv(R(Abs(x - anchor)), R(anchor)), threshold)

\* the clusters of one column (high or low) of the window: for i in
\* range(len - 2), count = 1 + the later bars within threshold of bar i
Clusters(col, threshold) ==
    LET m == Len(col)
        count(i) == 1 + Cardinality({j \in (i + 1) .. m :
                                        WithinThreshold(col[j], col[i], threshold)})
        anchors == SelectSeq([i \in 1 .. (m - 2) |-> i], LAMBDA i : count(i) >= 3)
    IN [k \in 1 .. Len(anchors) |->
           [price |-> col[anchors[k]], count |-> count(anchors[k]),
            timestamp |-> anchors[k]]]

\* premium / equilibrium / discount from the window's extremes
PdArrays(top, bottom) ==
    LET price_range == RSub(top, bottom)
        premium_level == RSub(top, RMul(price_range, Rat(1, 4)))
        discount_level == RAdd(bottom, RMul(price_range, Rat(1, 4)))
    IN [premium |-> premium_level,
        equilibrium |-> RDiv(RAdd(premium_level, discount_level), R(2)),
        discount |-> discount_level]

\* the body of find_liquidity_pools on recent_data = self.data.tail(lookback)
PoolsOf(recent_data, threshold) ==
    [clusters |-> [highs |-> Clusters(Highs(recent_data), threshold),
                   lows |-> Clusters(Lows(recent_data), threshold)],
     pd_arrays |-> PdArrays(SeriesMax(Highs(recent_data)),
                            SeriesMin(Lows(recent_data)))]

find_liquidity_pools(d, lookback, threshold) == PoolsOf(tail(d, lookback), threshold)

\* min(levels, default=...) / max(levels, default=...)
MinOr(levels, default) ==
    IF levels = {} THEN default ELSE CHOOSE l \in levels : \A o \in levels : RLe(l, o)
MaxOr(levels, default) ==
    IF levels = {} THEN default ELSE CHOOSE l \in levels : \A o \in levels : RGe(l, o)

\* the prices of a list of clusters
Prices(clusters) == {R(clusters[k].price) : k \in 1 .. Len(clusters)}

\* a plausible slip: a level equal to the price counts as beyond it
NearestLevelInclusive(liquidity, price, direction) ==
    IF direction = "up"
    THEN MinOr({l \in Prices(liquidity.clusters.highs) \cup {liquidity.pd_arrays.premium} :
                   RGe(l, price)},
               RMul(price, Rat(102, 100)))
    ELSE MaxOr({l \in Prices(liquidity.clusters.lows) \cup {liquidity.pd_arrays.discount} :
                   RLe(l, price)},
               RMul(price, Rat(98, 100)))

\* the body of find_nearest_liquidity_pool once the pools are known
NearestLevel(liquidity, price, direction) ==
    IF direction = "up"
    THEN MinOr({l \in Prices(liquidity.clusters.highs) \cup {liquidity.pd_arrays.premium} :
                   RGt(l, price)},
               RMul(price, Rat(102, 100)))
    ELSE MaxOr({l \in Prices(liquidity.clusters.lows) \cup {liquidity.pd_arrays.discount} :
                   RLt(l, price)},
               RMul(price, Rat(98, 100)))

\* EntrySystems.find_nearest_liquidity_pool
find_nearest_liquidity_pool(d, price, direction) ==
    NearestLevel(find_liquidity_pools(d, 20, Rat(5, 1000)), price, direction)

NoCandidate == [system |-> "none"]
RaisedIndexError == [system |-> "IndexError"]
Fired(c) == c.system \notin {"none", "IndexError"}

Candidate(d, system, direction, entry_price, stop_loss, invalidation) ==
    [system |-> system, direction |-> direction, entry_price |-> entry_price,
     stop_loss |-> stop_loss,
     take_profit |-> find_nearest_liquidity_pool(d, entry_price,
                         IF direction = "long" THEN "up" ELSE "down"),
     invalidation_point |-> invalidation,
     timestamp |-> Len(d)]

\* EntrySystems.turtle_soup
turtle_soup(d) ==
    LET recent_data == tail(d, 22)
        avg_volume == SeriesMean(Volumes(recent_data))
        atr == calculate_atr(d)
    IN IF Raised(atr) \/ Len(recent_data) < 3 THEN RaisedIndexError
       ELSE LET low3 == ILoc(Lows(recent_data), 3)
                high3 == ILoc(Highs(recent_data), 3)
                last == ILoc(recent_data, 1)
                spike == RGt(R(last.volume), RMul(R(2), avg_volume))
            IN IF /\ RLt(R(low3), SeriesMin(ISlice(Lows(recent_data), 23, 3)))
                  /\ last.close > last.open
                  /\ spike
               THEN Candidate(d, "turtle_soup", "long", R(last.close),
                              RSub(R(low3), RMul(Rat(3, 2), atr)), R(low3))
               ELSE IF /\ RGt(R(high3), SeriesMax(ISlice(Highs(recent_data), 23, 3)))
                       /\ last.close < last.open
                       /\ spike
               THEN Candidate(d, "turtle_soup", "short", R(last.close),
                              RAdd(R(high3), RMul(Rat(3, 2), atr)), R(high3))
               ELSE NoCandidate

\* a plausible slip: 0.05 typed for 0.005
CrtConsolidationWide(price_range, volume_ratio) ==
    RLe(price_range, Rat(5, 100)) /\ RLt(volume_ratio, Rat(1, 2))

\* price_range <= 0.005 and volume_ratio < 0.5
CrtConsolidation(price_range, volume_ratio) ==
    RLe(price_range, Rat(5, 1000)) /\ RLt(volume_ratio, Rat(1, 2))

\* a plausible slip: a close at the range high counts as a breakout
CrtBreaksAboveInclusive(close, range_high) == RGe(close, range_high)

\* recent_data['close'].iloc[-1] > range_high
CrtBreaksAbove(close, range_high) == RGt(close, range_high)

\* EntrySystems.crt
crt(d) ==
    LET recent_data == tail(d, 6)
        atr == calculate_atr(d)
    IN IF Raised(atr) THEN RaisedIndexError
       ELSE LET range_high == SeriesMax(Highs(recent_data))
                range_low == SeriesMin(Lows(recent_data))
                price_range == RDiv(RSub(range_high, range_low), range_low)
                volume_ratio == RDiv(SeriesMean(Volumes(recent_data)),
                                     RollingMeanAt(Volumes(d), 20, Len(d)))
                range_mid == RDiv(RAdd(range_high, range_low), R(2))
                last == ILoc(recent_data, 1)
            IN IF ~CrtConsolidation(price_range, volume_ratio) THEN NoCandidate
               ELSE IF CrtBreaksAbove(R(last.close), range_high)
               THEN Candidate(d, "crt", "long", R(last.close),
                              RSub(range_low, RMul(Rat(3, 2), atr)), range_mid)
               ELSE IF RLt(R(last.close), range_low)
               THEN Candidate(d, "crt", "short", R(last.close),
                              RAdd(range_high, RMul(Rat(3, 2), atr)), range_mid)
               ELSE NoCandidate

\* EntrySystems.market_maker_model
market_maker_model(d) ==
    LET recent_data == tail(d, 3)
        avg_volume == SeriesMean(Volumes(recent_data))
        atr == calculate_atr(d)
    IN IF Raised(atr) THEN RaisedIndexError
       ELSE LET quarterly_levels == get_quarterly_levels(d)
                bias == determine_bias(d)
                last == ILoc(recent_data, 1)
                busy == RGt(R(last.volume), RMul(Rat(3, 2), avg_volume))
            IN IF /\ bias = "bullish"
                  /\ last.low <= quarterly_levels.q2_low
                  /\ last.close > last.open
                  /\ busy
               THEN Candidate(d, "market_maker", "long", R(last.close),
                              RSub(R(quarterly_levels.q2_low), RMul(Rat(3, 2), atr)),
                              R(quarterly_levels.q2_low))
               ELSE IF /\ bias = "bearish"
                       /\ last.high >= quarterly_levels.q3_high
                       /\ last.close < last.open
                       /\ busy
               THEN Candidate(d, "market_maker", "short", R(last.close),
                              RAdd(R(quarterly_levels.q3_high), RMul(Rat(3, 2), atr)),
                              R(quarterly_levels.q3_high))
               ELSE NoCandidate

\* a plausible slip: Turtle Soup is tried whatever the volatility
TurtleSoupGateOpen(d) == TRUE

\* if self.is_volatile(): (called once is_volatile() has returned)
TurtleSoupGate(d) == is_volatile(d).val

\* the mapping generate_entries builds from what the three systems returned
CollectEntries(ts, c, mm) ==
    IF "IndexError" \in {ts.system, c.system, mm.system}
    THEN [status |-> "IndexError"]
    ELSE [status |-> "ok",
          entries |-> [k \in {x.system : x \in {y \in {ts, c, mm} : Fired(y)}} |->
                          IF k = "turtle_soup" THEN ts
                          ELSE IF k = "crt" THEN c ELSE mm]]

\* EntrySystems.generate_entries: [status, entries]
generate_entries(d) ==
    IF is_volatile(d).raised THEN [status |-> "IndexError"]
    ELSE CollectEntries(IF TurtleSoupGate(d) THEN turtle_soup(d) ELSE NoCandidate,
                        crt(d), market_maker_model(d))

-----------------------------------------------------------------------------
(* Series handed to the engines, and the calls made on them                *)

\* bound: longest series
MaxLen == 25

\* The bars between the marked positions.  "calm" bars are well formed;
\* "gappy" bars close far below their own low (the source validates nothing),
\* which makes every true range large.
BodyBar(regime) ==
    [open |-> 1000, high |-> 1003, low |-> 1000,
     close |-> IF regime = "gappy" THEN 900 ELSE 1002, volume |-> 100]

\* the final bar
LastBars ==
    { [open |-> 1000, high |-> 1003, low |-> 1000, close |-> 1002, volume |-> 100],
      [open |-> 1000, high |-> 1003, low |-> 1000, close |-> 1003, volume |-> 100],
      [open |-> 1000, high |-> 1007, low |-> 999, close |-> 1007, volume |-> 1000],
      [open |-> 1003, high |-> 1003, low |-> 995, close |-> 996, volume |-> 1000],
      [open |-> 1000, high |-> 1003, low |-> 999, close |-> 1007, volume |-> 180],
      [open |-> 1000, high |-> 1005, low |-> 1000, close |-> 1007, volume |-> 180],
      [open |-> 1000, high |-> 1006, low |-> 1000, close |-> 1007, volume |-> 180],
      [open |-> 1003, high |-> 1003, low |-> 1000, close |-> 998, volume |-> 180] }

\* bar[-3]: as the body, undercutting the lows, or exceeding the highs
SweepKinds == {"body", "undercut", "overshoot"}
\* bar[-23]: as the body, or with a more extreme low / high than any sweep
OldKinds == {"body", "lower", "higher"}
Regimes == {"calm", "gappy"}
\* where the timestamps fall in the current year: nowhere ("hist"), or the
\* final bar in the quarter after the one holding all earlier bars
Layouts == {"hist", "q2q3", "q3q4"}

MakeSeries(n, regime, quiet, old, sweep, lastBar, layout) ==
    [i \in 1 .. n |->
        LET j == n - i + 1
            body == BodyBar(regime)
            shape == IF j = 1 THEN lastBar
                     ELSE IF j = 3 /\ sweep = "undercut" THEN [body EXCEPT !.low = 999]
                     ELSE IF j = 3 /\ sweep = "overshoot" THEN [body EXCEPT !.high = 1015]
                     ELSE IF j = 23 /\ old = "lower" THEN [body EXCEPT !.low = 985]
                     ELSE IF j = 23 /\ old = "higher" THEN [body EXCEPT !.high = 1020]
                     ELSE body
            volume == IF quiet /\ j \in 2 .. 6 THEN 10 ELSE shape.volume
            q == IF layout = "hist" THEN 0
                 ELSE IF layout = "q2q3" THEN (IF j = 1 THEN 3 ELSE 2)
                 ELSE (IF j = 1 THEN 4 ELSE 3)
        IN [open |-> shape.open, high |-> shape.high, low |-> shape.low,
            close |-> shape.close, volume |-> volume, q |-> q]]

InitSeries ==
    /\ position = [entry_price |-> 100, atr |-> 1, direction |-> "long"]
    /\ stops = <<>>
    /\ sizing = [called |-> FALSE]
    /\ \E n \in 0 .. MaxLen, regime \in Regimes, quiet \in BOOLEAN, old \in OldKinds,
          sweep \in SweepKinds, lastBar \in LastBars, layout \in Layouts :
          data = MakeSeries(n, regime, quiet, old, sweep, lastBar, layout)
    /\ out = [op |-> "none"]
    /\ signals = <<>>
    /\ metrics = [called |-> FALSE]
    /\ frame = NoFrame
    /\ objects = {}

\* A call reads self.data only and leaves it alone, so what it returns does not
\* depend on the calls made before it: a behaviour is one call on one series.
NoCallYet == out.op = "none"
SeriesFrame == UNCHANGED <<position, stops, sizing, data, signals, metrics, frame, objects>>

CalculateAtr ==
    /\ NoCallYet
    /\ out' = [op |-> "calculate_atr", val |-> calculate_atr(data)]
    /\ SeriesFrame

RiskCalculateAtr ==
    /\ NoCallYet
    /\ out' = [op |-> "risk_calculate_atr", val |-> risk_calculate_atr(data)]
    /\ SeriesFrame

CalculateSmaSlope ==
    /\ NoCallYet
    /\ out' = [op |-> "calculate_sma_slope", val |-> calculate_sma_slope(data, 20)]
    /\ SeriesFrame

IsVolatile ==
    /\ NoCallYet
    /\ out' = [op |-> "is_volatile", val |-> is_volatile(data)]
    /\ SeriesFrame

TurtleSoup ==
    /\ NoCallYet
    /\ out' = [op |-> "turtle_soup", val |-> turtle_soup(data)]
    /\ SeriesFrame

Crt ==
    /\ NoCallYet
    /\ out' = [op |-> "crt", val |-> crt(data)]
    /\ SeriesFrame

MarketMakerModel ==
    /\ NoCallYet
    /\ out' = [op |-> "market_maker_model", val |-> market_maker_model(data)]
    /\ SeriesFrame

GenerateEntries ==
    /\ NoCallYet
    /\ out' = [op |-> "generate_entries", val |-> generate_entries(data)]
    /\ SeriesFrame

(* RiskManagement.generate_risk_metrics                                    *)

\* RiskManagement.calculate_dynamic_stop_loss
calculate_dynamic_stop_loss(d, entry_price, direction, timeframe) ==
    IF direction = "long"
    THEN RSub(entry_price,
              RMul(risk_calculate_atr(d),
                   IF timeframe \in {"1m", "5m", "15m"} THEN Rat(3, 2) ELSE R(2)))
    ELSE RAdd(entry_price,
              RMul(risk_calculate_atr(d),
                   IF timeframe \in {"1m", "5m", "15m"} THEN Rat(3, 2) ELSE R(2)))

\* a plausible slip: the empty mapping is not tested for
EntriesEmptyIgnored(entries) == FALSE

\* if not entries:
EntriesEmpty(entries) == DOMAIN entries = {}

\* next(iter(entries.values())): the mapping keeps insertion order
FirstEntry(entries) ==
    IF "turtle_soup" \in DOMAIN entries THEN entries["turtle_soup"]
    ELSE IF "crt" \in DOMAIN entries THEN entries["crt"]
    ELSE entries["market_maker"]

\* abs(reward) / abs(risk) if risk > 0 else 0
RiskRewardRatio(entry) ==
    IF RGt(RAbs(RSub(entry.entry_price, entry.stop_loss)), R(0))
    THEN RDiv(RAbs(RSub(entry.take_profit, entry.entry_price)),
              RAbs(RSub(entry.entry_price, entry.stop_loss)))
    ELSE R(0)

\* the body of generate_risk_metrics once the entry and its sizing are known;
\* the prices are numpy floats, so a zero stop distance gives an infinite size
RiskMetricsOf(d, entry, position_sizing, timeframe) ==
    IF position_sizing.status = "KeyError" THEN [status |-> "KeyError"]
    ELSE [status |-> "ok",
          position_size |-> IF position_sizing.status = "ok"
                            THEN position_sizing.position_size ELSE Inf(1),
          risk_amount |-> IF position_sizing.status = "ok"
                          THEN position_sizing.risk_amount ELSE None,
          dynamic_stop_loss |->
              calculate_dynamic_stop_loss(d, entry.entry_price, entry.direction, timeframe),
          trailing_stop |->
              calculate_trailing_stop(entry.entry_price, R(ILoc(d, 1).close),
                                      entry.direction, risk_calculate_atr(d)),
          risk_reward_ratio |-> RiskRewardRatio(entry),
          atr |-> risk_calculate_atr(d)]

\* the part of generate_risk_metrics after generate_entries has returned
RiskMetricsFor(d, generated, asset, timeframe, balance) ==
    IF generated.status # "ok" THEN [status |-> generated.status]
    ELSE IF EntriesEmpty(generated.entries)
    THEN [status |-> "ok", error |-> "No entry signals available"]
    ELSE IF DOMAIN generated.entries = {} THEN [status |-> "StopIteration"]
    ELSE RiskMetricsOf(d, FirstEntry(generated.entries),
                       calculate_position_size(asset,
                           FirstEntry(generated.entries).entry_price,
                           FirstEntry(generated.entries).stop_loss, balance, None),
                       timeframe)

\* RiskManagement.generate_risk_metrics
generate_risk_metrics(d, asset, timeframe, balance) ==
    RiskMetricsFor(d, generate_entries(d), asset, timeframe, balance)

RiskAssets == {"XAUUSD", "EURUSD"}
RiskTimeframes == {"5m", "1d"}

\* what a generate_risk_metrics call leaves behind: the mapping generate_entries
\* returned to it and the value (or the exception) it ended with
RiskCall(d, generated, asset, timeframe, balance) ==
    [op |-> "generate_risk_metrics", asset |-> asset, timeframe |-> timeframe,
     generated |-> generated,
     val |-> RiskMetricsFor(d, generated, asset, timeframe, balance)]

GenerateRiskMetrics ==
    /\ NoCallYet
    /\ \E asset \in RiskAssets, timeframe \in RiskTimeframes :
          out' = RiskCall(data, generate_entries(data), asset, timeframe, None)
    /\ SeriesFrame

NextRisk == GenerateRiskMetrics

SpecRisk == InitSeries /\ [][NextRisk]_vars

\* determine_bias(): self.data['close'].iloc[-1] raises IndexError on an empty frame
DetermineBias ==
    /\ NoCallYet
    /\ out' = [op |-> "determine_bias",
               val |-> IF Len(data) = 0 THEN "IndexError" ELSE determine_bias(data)]
    /\ SeriesFrame

NextSeries ==
    \/ CalculateAtr
    \/ RiskCalculateAtr
    \/ CalculateSmaSlope
    \/ IsVolatile
    \/ TurtleSoup
    \/ Crt
    \/ MarketMakerModel
    \/ GenerateEntries
    \/ DetermineBias

SpecSeries == InitSeries /\ [][NextSeries]_vars

\* views of the series used to state the claims
BarFromEnd(j) == data[Len(data) - j + 1]
MaxHighLast(k) == MaxOver(Highs(data), Len(data) - k + 1, Len(data))
MinLowLast(k) == MinOver(Lows(data), Len(data) - k + 1, Len(data))
VolumeLast(k) == SumOver(Volumes(data), Len(data) - k + 1, Len(data))

\* C3: on a series of fewer than 21 bars calculate_atr (period 20) and
\* calculate_sma_slope (period 20) report insufficient data (NaN, or no value
\* at all) and never return an ordinary number.
C3_InsufficientData ==
    (/\ out.op \in {"calculate_atr", "risk_calculate_atr", "calculate_sma_slope"}
     /\ Len(data) < 21)
        => ~IsNum(out.val)

\* C4: generate_entries returns a mapping keyed by a subset of the three system
\* names, each key holding the one candidate of that system; turtle_soup is
\* present only if is_volatile() is true and turtle_soup() fired; crt and
\* market_maker are present exactly when they fire, whatever is_volatile() says.
C4_EntriesMapping ==
    (out.op = "generate_entries" /\ out.val.status = "ok") =>
        LET entries == out.val.entries
        IN /\ DOMAIN entries \subseteq {"turtle_soup", "crt", "market_maker"}
           /\ \A k \in DOMAIN entries : entries[k].system = k
           /\ "turtle_soup" \in DOMAIN entries =>
                 /\ is_volatile(data).val
                 /\ entries["turtle_soup"] = turtle_soup(data)
           /\ "crt" \in DOMAIN entries <=> Fired(crt(data))
           /\ "crt" \in DOMAIN entries => entries["crt"] = crt(data)
           /\ "market_maker" \in DOMAIN entries <=> Fired(market_maker_model(data))
           /\ "market_maker" \in DOMAIN entries =>
                 entries["market_maker"] = market_maker_model(data)

\* crt and market_maker co-fire in a market that is not volatile
C4_Witness ==
    /\ out.op = "generate_entries"
    /\ out.val.status = "ok"
    /\ DOMAIN out.val.entries = {"crt", "market_maker"}
    /\ ~is_volatile(data).val

\* the Bar invariant of the data model: low <= open, close <= high
WellFormed(bar) ==
    /\ bar.low <= Min2(bar.open, bar.close)
    /\ bar.high >= Max2(bar.open, bar.close)

\* the three conditions of the end-to-end scenario on a 25-bar series of
\* well-formed bars
C5_Scenario ==
    /\ Len(data) = 25
    /\ \A i \in 1 .. Len(data) : WellFormed(data[i])
    /\ \A j \in 4 .. 23 : BarFromEnd(3).low < BarFromEnd(j).low
    /\ BarFromEnd(1).close > BarFromEnd(1).open
    /\ 22 * BarFromEnd(1).volume > 2 * VolumeLast(22)

\* C5: through generate_entries, every 25-bar series whose bar[-3] low is below
\* the lows of the 20 bars before it, whose final bar closes above its open with
\* volume above twice the 22-bar mean, yields a turtle_soup long candidate with
\* entry = last close, stop = low[-3] - 1.5 * ATR(20), invalidation = low[-3].
C5_EndToEnd ==
    (out.op = "generate_entries" /\ C5_Scenario) =>
        /\ out.val.status = "ok"
        /\ "turtle_soup" \in DOMAIN out.val.entries
        /\ LET c == out.val.entries["turtle_soup"]
           IN /\ c.direction = "long"
              /\ c.entry_price = R(BarFromEnd(1).close)
              /\ c.stop_loss = RSub(R(BarFromEnd(3).low),
                                    RMul(Rat(3, 2), calculate_atr(data)))
              /\ c.invalidation_point = R(BarFromEnd(3).low)

\* C6: on a series of at least 23 bars turtle_soup fires long only if bar[-3]'s
\* low is strictly below the low of each of the 20 bars before it (bars -23 to
\* -4), and short only if its high is strictly above the high of each of them.
C6_SweepWindow ==
    (out.op = "turtle_soup" /\ Len(data) >= 23 /\ Fired(out.val)) =>
        /\ out.val.direction = "long" =>
              \A j \in 4 .. 23 : BarFromEnd(3).low < BarFromEnd(j).low
        /\ out.val.direction = "short" =>
              \A j \in 4 .. 23 : BarFromEnd(3).high > BarFromEnd(j).high

\* the series with the low of bar[-2] one tick lower: only the 6-bar range grows
WidenRange(d) == [d EXCEPT ![Len(d) - 1].low = @ - 1]

\* C7: crt returns a candidate only when (max high - min low) / min low of the
\* last 6 bars is <= 0.005 and the 6-bar mean volume is below half the 20-bar
\* rolling mean volume; a series that fires with the range exactly at 0.005
\* no longer fires once only the range is widened; a long candidate has
\* entry = last close, stop = range low - 1.5 * ATR, invalidation = range
\* midpoint, and a short one mirrors it.
C7_CrtBoundary ==
    (out.op = "crt" /\ Fired(out.val)) =>
        /\ Len(data) >= 20
        /\ 1000 * (MaxHighLast(6) - MinLowLast(6)) <= 5 * MinLowLast(6)
        /\ 40 * VolumeLast(6) < 6 * VolumeLast(20)
        /\ (1000 * (MaxHighLast(6) - MinLowLast(6)) = 5 * MinLowLast(6)) =>
               crt(WidenRange(data)) = NoCandidate
        /\ out.val.system = "crt"
        /\ out.val.entry_price = R(BarFromEnd(1).close)
        /\ out.val.invalidation_point = Rat(MaxHighLast(6) + MinLowLast(6), 2)
        /\ out.val.direction = "long" =>
              /\ BarFromEnd(1).close > MaxHighLast(6)
              /\ out.val.stop_loss = RSub(R(MinLowLast(6)),
                                          RMul(Rat(3, 2), calculate_atr(data)))
        /\ out.val.direction = "short" =>
              /\ BarFromEnd(1).close < MinLowLast(6)
              /\ out.val.stop_loss = RAdd(R(MaxHighLast(6)),
                                          RMul(Rat(3, 2), calculate_atr(data)))

\* crt fired long on a series whose 6-bar range is exactly 0.005 of its low
C7_Witness ==
    /\ out.op = "crt"
    /\ Fired(out.val)
    /\ out.val.direction = "long"
    /\ 1000 * (MaxHighLast(6) - MinLowLast(6)) = 5 * MinLowLast(6)

-----------------------------------------------------------------------------
(* find_liquidity_pools on short windows of varied highs and lows          *)

\* bound: longest window of bars scanned for clusters
MaxWindow == 4

\* 1000 and 1004, and 1004 and 1008, lie within 0.5% of each other; 1000 and
\* 1008 do not
PoolPrices == {1000, 1004, 1008}

PoolBars ==
    {[open |-> l, high |-> h, low |-> l, close |-> h, volume |-> 100, q |-> 0] :
        <<h, l>> \in {x \in PoolPrices \X PoolPrices : x[1] >= x[2]}}

InitPools ==
    /\ position = [entry_price |-> 100, atr |-> 1, direction |-> "long"]
    /\ stops = <<>>
    /\ sizing = [called |-> FALSE]
    /\ data \in UNION {[1 .. n -> PoolBars] : n \in 0 .. MaxWindow}
    /\ out = [op |-> "none"]
    /\ signals = <<>>
    /\ metrics = [called |-> FALSE]
    /\ frame = NoFrame
    /\ objects = {}

FindLiquidityPools ==
    /\ NoCallYet
    /\ out' = [op |-> "find_liquidity_pools",
               val |-> find_liquidity_pools(data, 20, Rat(5, 1000))]
    /\ SeriesFrame

NextPools == FindLiquidityPools

SpecPools == InitPools /\ [][NextPools]_vars

Reverse(s) == [i \in 1 .. Len(s) |-> s[Len(s) - i + 1]]

\* how many entries of the column lie within 0.5% of the level
Touches(col, level) ==
    Cardinality({j \in 1 .. Len(col) : WithinThreshold(col[j], level, Rat(5, 1000))})

\* the claim for one column: found is the cluster list the scan recorded,
\* foundReversed the list recorded on the window in reverse order
ClusterBoundary(col, found, foundReversed) ==
    /\ (\E i \in 1 .. Len(col) : Touches(col, col[i]) = 3) =>
           \E k \in 1 .. Len(found) : found[k].count >= 3
    /\ (\A i \in 1 .. Len(col) : Touches(col, col[i]) <= 2) => found = <<>>
    /\ (found = <<>>) <=> (foundReversed = <<>>)

\* C8: in a window of at most 20 bars a level touched by exactly 3 highs within
\* 0.5% always yields a recorded highs cluster, a level touched by only 2 never
\* does, and reversing the order of the bars does not change whether a cluster
\* is detected; the same for lows.
C8_ClusterSymmetry ==
    out.op = "find_liquidity_pools" =>
        LET reversed == find_liquidity_pools(Reverse(data), 20, Rat(5, 1000))
        IN /\ ClusterBoundary(Highs(data), out.val.clusters.highs,
                              reversed.clusters.highs)
           /\ ClusterBoundary(Lows(data), out.val.clusters.lows,
                              reversed.clusters.lows)

-----------------------------------------------------------------------------
(* RiskManagement.calculate_portfolio_metrics                              *)
(*                                                                         *)
(* A signal is a dict: has is the set of its keys, the other fields give   *)
(* the values of the keys it has (and are 0 / "" for the keys it lacks).   *)

Signal(has, result, risk_amount, risk_reward, entry_price, stop_loss, take_profit) ==
    [has |-> has, result |-> result, risk_amount |-> risk_amount,
     risk_reward |-> risk_reward, entry_price |-> entry_price,
     stop_loss |-> stop_loss, take_profit |-> take_profit]

PriceKeys == {"entry_price", "stop_loss", "take_profit"}

\* the signal records a caller may put in the history
SignalSet ==
    { Signal({"result", "risk_amount", "risk_reward"} \cup PriceKeys,
             "win", 100, 2, 1000, 990, 1020),
      Signal({"result", "risk_amount"}, "win", 100, 0, 0, 0, 0),
      Signal({"result"}, "win", 0, 0, 0, 0, 0),
      Signal({"result", "risk_amount"} \cup PriceKeys, "loss", 100, 0, 1000, 990, 1010),
      Signal({"result", "risk_amount", "risk_reward"}, "loss", 300, 2, 0, 0, 0),
      Signal({"risk_amount"} \cup PriceKeys, "", 100, 0, 1000, 1000, 1020),
      Signal({"risk_amount", "risk_reward"}, "", 100, 2, 0, 0, 0),
      Signal({"stop_loss", "take_profit"}, "", 0, 0, 0, 990, 1020) }

\* a plausible slip: a win credits risk_amount, the reward multiple forgotten
EquityStepFlat(current_equity, signal) ==
    IF signal.result = "win" THEN current_equity + signal.risk_amount
    ELSE current_equity - signal.risk_amount

\* one turn of the equity loop for a signal that has 'result' and 'risk_amount'
EquityStep(current_equity, signal) ==
    IF signal.result = "win"
    THEN current_equity + signal.risk_amount *
             (IF "risk_reward" \in signal.has THEN signal.risk_reward ELSE 1)
    ELSE current_equity - signal.risk_amount

RECURSIVE EquityCurve(_, _)
\* equity_curve built from the signals, starting at current_equity
EquityCurve(sigs, current_equity) ==
    IF sigs = <<>> THEN <<>>
    ELSE IF {"result", "risk_amount"} \subseteq Head(sigs).has
    THEN <<EquityStep(current_equity, Head(sigs))>>
         \o EquityCurve(Tail(sigs), EquityStep(current_equity, Head(sigs)))
    ELSE EquityCurve(Tail(sigs), current_equity)

\* np.max((peak - equity_curve) / peak), peak = np.maximum.accumulate(equity_curve)
MaxDrawdown(curve) ==
    MaxOr({Rat(MaxOver(curve, 1, i) - curve[i], MaxOver(curve, 1, i)) :
              i \in 1 .. Len(curve)}, R(0))

\* the reward/risk ratios of the signals that have a target and a stop
RiskRewards(sigs) ==
    LET rated == SelectSeq(sigs, LAMBDA x :
                     /\ {"take_profit", "stop_loss"} \subseteq x.has
                     /\ Abs(x.entry_price - x.stop_loss) > 0)
    IN [i \in 1 .. Len(rated) |->
           Rat(Abs(rated[i].take_profit - rated[i].entry_price),
               Abs(rated[i].entry_price - rated[i].stop_loss))]

RECURSIVE RSum(_)
RSum(s) == IF s = <<>> THEN R(0) ELSE RAdd(Head(s), RSum(Tail(s)))

\* len(signals)
TotalTrades(sigs) == Len(sigs)

\* winning_trades / total_trades
WinRate(sigs) ==
    Rat(Cardinality({i \in 1 .. Len(sigs) :
                        "result" \in sigs[i].has /\ sigs[i].result = "win"}),
        TotalTrades(sigs))

\* [status, win_rate, avg_risk_reward, max_drawdown, total_trades]; equity_curve
\* is the local list the drawdown is computed from
calculate_portfolio_metrics(sigs) ==
    IF sigs = <<>>
    THEN [status |-> "ok", win_rate |-> R(0), avg_risk_reward |-> R(0),
          max_drawdown |-> R(0), total_trades |-> 0, equity_curve |-> <<>>]
    ELSE IF \E i \in 1 .. Len(sigs) :
               /\ {"take_profit", "stop_loss"} \subseteq sigs[i].has
               /\ "entry_price" \notin sigs[i].has
    THEN [status |-> "KeyError"]
    ELSE [status |-> "ok",
          win_rate |-> WinRate(sigs),
          avg_risk_reward |-> IF RiskRewards(sigs) = <<>> THEN R(0)
                              ELSE RDiv(RSum(RiskRewards(sigs)),
                                        R(Len(RiskRewards(sigs)))),
          max_drawdown |-> MaxDrawdown(EquityCurve(sigs, default_balance)),
          total_trades |-> TotalTrades(sigs),
          equity_curve |-> EquityCurve(sigs, default_balance)]

\* bound: longest signal history
MaxSignals == 3

InitPortfolio ==
    /\ position = [entry_price |-> 100, atr |-> 1, direction |-> "long"]
    /\ stops = <<>>
    /\ sizing = [called |-> FALSE]
    /\ data = <<>>
    /\ out = [op |-> "none"]
    /\ signals = <<>>
    /\ metrics = [called |-> FALSE]
    /\ frame = NoFrame
    /\ objects = {}

\* the caller appends a past signal to the history it keeps
AddSignal ==
    /\ Len(signals) < MaxSignals
    /\ \E sig \in SignalSet : signals' = Append(signals, sig)
    /\ UNCHANGED <<position, stops, sizing, data, out, metrics, frame, objects>>

CalculatePortfolioMetrics ==
    /\ metrics' = [called |-> TRUE, input |-> signals,
                   result |-> calculate_portfolio_metrics(signals)]
    /\ UNCHANGED <<position, stops, sizing, data, out, signals, frame, objects>>

NextPortfolio == AddSignal \/ CalculatePortfolioMetrics

SpecPortfolio == InitPortfolio /\ [][NextPortfolio]_vars

Won(sig) == "result" \in sig.has /\ sig.result = "win"

\* C9: an empty history gives win_rate 0, avg_risk_reward 0, max_drawdown 0,
\* total_trades 0; a single winning signal with risk_amount 100 and
\* risk_reward 2 ends the replayed equity at 10200 with max_drawdown 0; a
\* history in which every signal wins has max_drawdown 0.
C9_EmptyAndWinning ==
    (metrics.called /\ metrics.result.status = "ok") =>
        /\ metrics.input = <<>> =>
              /\ metrics.result.win_rate = R(0)
              /\ metrics.result.avg_risk_reward = R(0)
              /\ metrics.result.max_drawdown = R(0)
              /\ metrics.result.total_trades = 0
        /\ (/\ Len(metrics.input) = 1
            /\ Won(metrics.input[1])
            /\ {"risk_amount", "risk_reward"} \subseteq metrics.input[1].has
            /\ metrics.input[1].risk_amount = 100
            /\ metrics.input[1].risk_reward = 2) =>
              /\ metrics.result.equity_curve = <<default_balance + 200>>
              /\ metrics.result.max_drawdown = R(0)
        /\ (\A i \in 1 .. Len(metrics.input) : Won(metrics.input[i])) =>
              metrics.result.max_drawdown = R(0)

\* the metrics of a history of several winning signals that moved the equity
C9_Witness ==
    /\ metrics.called
    /\ metrics.result.status = "ok"
    /\ Len(metrics.input) = MaxSignals
    /\ \A i \in 1 .. Len(metrics.input) : Won(metrics.input[i])
    /\ Len(metrics.result.equity_curve) >= 2
    /\ metrics.result.equity_curve[1] = default_balance + 200

\* C10: win_rate is the number of signals whose result is 'win' divided by the
\* number of signals that carry a 'result'; signals without a 'result' do not
\* change it.
C10_WinRateOverRealized ==
    (metrics.called /\ metrics.result.status = "ok" /\ metrics.input # <<>>) =>
        LET wins == Cardinality({i \in 1 .. Len(metrics.input) : Won(metrics.input[i])})
            realized == Cardinality({i \in 1 .. Len(metrics.input) :
                                        "result" \in metrics.input[i].has})
        IN metrics.result.win_rate = IF realized = 0 THEN R(0) ELSE Rat(wins, realized)

\* the running peak of the replay at curve position i, the starting balance included
PeakWithStart(curve, i) == Max2(default_balance, MaxOver(curve, 1, i))

\* C11: max_drawdown is the maximum of (running peak - value) / running peak
\* over the replayed equity curve with the starting balance of 10000 counted in
\* the running peak, so a history that loses before it ever wins reports a
\* strictly positive max_drawdown (a single loss of risk_amount 100 reports
\* 100/10000).
C11_DrawdownFromStart ==
    (metrics.called /\ metrics.result.status = "ok") =>
        metrics.result.max_drawdown =
            MaxOr({Rat(PeakWithStart(metrics.result.equity_curve, i)
                         - metrics.result.equity_curve[i],
                       PeakWithStart(metrics.result.equity_curve, i)) :
                      i \in 1 .. Len(metrics.result.equity_curve)}, R(0))

-----------------------------------------------------------------------------
(* The DataFrame a caller builds and hands to the analysis classes         *)
(*                                                                         *)
(* frame is the one DataFrame object: its columns, what its index is, the  *)
(* dtype of its timestamp values and its rows in order.  objects is the    *)
(* set of classes constructed on it so far.                                *)

\* bound: most rows of the caller's DataFrame
MaxRows == 3

FrameColumns == {"timestamp", "asset", "open", "high", "low", "close", "volume"}

FrameBars ==
    {[open |-> 1000, high |-> 1004, low |-> 1000, close |-> 1004, volume |-> 100, q |-> 0],
     [open |-> 1004, high |-> 1008, low |-> 1000, close |-> 1000, volume |-> 100, q |-> 0]}

\* rows with pairwise different timestamps, in any order
FrameRows ==
    {rows \in UNION {[1 .. n -> [timestamp : 1 .. MaxRows, bar : FrameBars]] : n \in 0 .. MaxRows} :
        \A i, j \in 1 .. Len(rows) : i # j => rows[i].timestamp # rows[j].timestamp}

BarsOf(rows) == [i \in 1 .. Len(rows) |-> rows[i].bar]

RECURSIVE SortIndex(_)
\* sort_index: the rows in ascending order of timestamp
SortIndex(rows) ==
    IF rows = <<>> THEN <<>>
    ELSE LET first == CHOOSE i \in 1 .. Len(rows) :
                          \A j \in 1 .. Len(rows) : rows[i].timestamp <= rows[j].timestamp
         IN <<rows[first]>> \o
            SortIndex([k \in 1 .. Len(rows) - 1 |->
                          IF k < first THEN rows[k] ELSE rows[k + 1]])

\* df = pd.DataFrame(response.data)
InitFrame ==
    /\ position = [entry_price |-> 100, atr |-> 1, direction |-> "long"]
    /\ stops = <<>>
    /\ sizing = [called |-> FALSE]
    /\ data = <<>>
    /\ out = [op |-> "none"]
    /\ signals = <<>>
    /\ metrics = [called |-> FALSE]
    /\ \E rows \in FrameRows :
          frame = [columns |-> FrameColumns, index |-> "RangeIndex",
                   timestamp_dtype |-> "object", rows |-> rows]
    /\ objects = {}

FrameOthers == UNCHANGED <<position, stops, sizing, data, signals, metrics>>

\* ICTAnalysis(df)
NewICTAnalysis ==
    /\ IF "timestamp" \notin frame.columns
       THEN /\ out' = [op |-> "ICTAnalysis", val |-> "KeyError"]
            /\ UNCHANGED <<frame, objects>>
       ELSE /\ out' = [op |-> "ICTAnalysis", val |-> "ok"]
            /\ frame' = [columns |-> frame.columns \ {"timestamp"},
                         index |-> "timestamp",
                         timestamp_dtype |-> "datetime64",
                         rows |-> SortIndex(frame.rows)]
            /\ objects' = objects \cup {"ICTAnalysis"}
    /\ FrameOthers

\* EntrySystems(df, ict_analysis)
NewEntrySystems ==
    /\ "ICTAnalysis" \in objects
    /\ out' = [op |-> "EntrySystems", val |-> "ok"]
    /\ objects' = objects \cup {"EntrySystems"}
    /\ UNCHANGED frame
    /\ FrameOthers

\* RiskManagement(df, entry_systems)
NewRiskManagement ==
    /\ "EntrySystems" \in objects
    /\ out' = [op |-> "RiskManagement", val |-> "ok"]
    /\ objects' = objects \cup {"RiskManagement"}
    /\ UNCHANGED frame
    /\ FrameOthers

\* ict_analysis.find_liquidity_pools()
FrameFindLiquidityPools ==
    /\ "ICTAnalysis" \in objects
    /\ out' = [op |-> "find_liquidity_pools",
               val |-> find_liquidity_pools(BarsOf(frame.rows), 20, Rat(5, 1000))]
    /\ UNCHANGED <<frame, objects>>
    /\ FrameOthers

\* entry_systems.calculate_atr()
FrameCalculateAtr ==
    /\ "EntrySystems" \in objects
    /\ out' = [op |-> "calculate_atr", val |-> calculate_atr(BarsOf(frame.rows))]
    /\ UNCHANGED <<frame, objects>>
    /\ FrameOthers

\* risk_management.calculate_atr()
FrameRiskCalculateAtr ==
    /\ "RiskManagement" \in objects
    /\ out' = [op |-> "risk_calculate_atr", val |-> risk_calculate_atr(BarsOf(frame.rows))]
    /\ UNCHANGED <<frame, objects>>
    /\ FrameOthers

NextFrame ==
    \/ NewICTAnalysis
    \/ NewEntrySystems
    \/ NewRiskManagement
    \/ FrameFindLiquidityPools
    \/ FrameCalculateAtr
    \/ FrameRiskCalculateAtr

SpecFrame == InitFrame /\ [][NextFrame]_vars

\* C12: no constructor and no method call changes the caller's DataFrame (its
\* columns, its index, its row order), so the same object can be handed to a
\* second analyzer afterwards.
C12_SeriesNeverMutated == [][frame' = frame]_vars

\* a second ICTAnalysis on the same DataFrame is constructed without an error
FrameReusable == out.op = "ICTAnalysis" => out.val = "ok"

\* C13: when generate_entries returns an empty mapping, generate_risk_metrics
\* returns the 'No entry signals available' value for every asset, known or
\* not, and every timeframe: nothing is raised and no sizing, stop or pip-value
\* lookup takes place.
C13_NoSignalOutcome ==
    (/\ out.op = "generate_risk_metrics"
     /\ out.generated.status = "ok"
     /\ DOMAIN out.generated.entries = {}) =>
        out.val = [status |-> "ok", error |-> "No entry signals available"]

\* a risk read for an asset without a pip value on a series that gives no candidate
C13_Witness ==
    /\ out.op = "generate_risk_metrics"
    /\ out.asset = "EURUSD"
    /\ Len(data) >= atr_period
    /\ out.generated.status = "ok"
    /\ DOMAIN out.generated.entries = {}
    /\ out.val.status = "ok"

-----------------------------------------------------------------------------
(* find_nearest_liquidity_pool asked for targets, and the targets of the   *)
(* candidates                                                              *)

\* the prices a target is asked for
NearestPrices == {R(999), R(1000), R(1002), R(1004), R(1008), R(1021)}

InitNearest == InitPools \/ InitSeries

\* what a find_nearest_liquidity_pool call leaves behind: the pools it read
\* and the level it returned
NearestCall(liquidity, price, direction) ==
    [op |-> "find_nearest_liquidity_pool", price |-> price, direction |-> direction,
     liquidity |-> liquidity, val |-> NearestLevel(liquidity, price, direction)]

\* targets are asked for on the short windows; on the longer series the targets
\* are those generate_entries asks for
FindNearestLiquidityPool ==
    /\ NoCallYet
    /\ Len(data) <= MaxWindow
    /\ \E price \in NearestPrices, direction \in {"up", "down"} :
          out' = NearestCall(find_liquidity_pools(data, 20, Rat(5, 1000)), price, direction)
    /\ SeriesFrame

NextNearest == FindNearestLiquidityPool \/ GenerateEntries

SpecNearest == InitNearest /\ [][NextNearest]_vars

\* the levels find_nearest_liquidity_pool chooses from
LevelsToward(liquidity, direction) ==
    IF direction = "up"
    THEN Prices(liquidity.clusters.highs) \cup {liquidity.pd_arrays.premium}
    ELSE Prices(liquidity.clusters.lows) \cup {liquidity.pd_arrays.discount}

Beyond(level, price, direction) ==
    IF direction = "up" THEN RGt(level, price) ELSE RLt(level, price)

\* C14: find_nearest_liquidity_pool returns the level nearest to the price among
\* the cluster prices and the premium (up) or discount (down) level strictly
\* beyond the price, or price*1.02 (up) / price*0.98 (down) if there is none;
\* the level returned is strictly beyond the price, and every long candidate's
\* take_profit is above its entry_price, every short candidate's below.
C14_NearestLevel ==
    /\ out.op = "find_nearest_liquidity_pool" =>
          /\ Beyond(out.val, out.price, out.direction)
          /\ \A l \in LevelsToward(out.liquidity, out.direction) :
                Beyond(l, out.price, out.direction) =>
                    ~Beyond(out.val, l, out.direction)
          /\ \/ /\ out.val \in LevelsToward(out.liquidity, out.direction)
             \/ /\ \A l \in LevelsToward(out.liquidity, out.direction) :
                      ~Beyond(l, out.price, out.direction)
                /\ out.val = RMul(out.price, IF out.direction = "up"
                                             THEN Rat(102, 100) ELSE Rat(98, 100))
    /\ (out.op = "generate_entries" /\ out.val.status = "ok") =>
          \A k \in DOMAIN out.val.entries :
              Beyond(out.val.entries[k].take_profit, out.val.entries[k].entry_price,
                     IF out.val.entries[k].direction = "long" THEN "up" ELSE "down")

\* a cluster of highs that is not the premium level is returned as the target
\* above a price that is itself one of the levels
C14_Witness ==
    /\ out.op = "find_nearest_liquidity_pool"
    /\ out.direction = "up"
    /\ out.val \in Prices(out.liquidity.clusters.highs)
    /\ out.val # out.liquidity.pd_arrays.premium
    /\ out.price \in LevelsToward(out.liquidity, "up")

-----------------------------------------------------------------------------
(* RiskManagement.check_daily_risk_limit                                   *)
(*                                                                         *)
(* A signal is a dict: has is the set of its keys, day is the date of its  *)
(* timestamp counted in days from datetime.now().date() (0 is today).      *)

DailySignal(has, day, risk_amount) == [has |-> has, day |-> day, risk_amount |-> risk_amount]

DailySignalSet ==
    { DailySignal({"timestamp", "risk_amount"}, 0, 100),
      DailySignal({"timestamp", "risk_amount"}, 0, 200),
      DailySignal({"timestamp", "risk_amount"}, 0, 300),
      DailySignal({"timestamp"}, 0, 0),
      DailySignal({"timestamp", "risk_amount"}, -1, 300),
      DailySignal({"timestamp", "risk_amount"}, 1, 200),
      DailySignal({"risk_amount"}, 0, 100) }

DailyBalances == {None, R(2000), R(0)}

\* signals whose timestamp date equals today
TodaySignals(sigs) == SelectSeq(sigs, LAMBDA x : x.day = 0)

RECURSIVE TotalRisk(_)
\* sum(signal.get('risk_amount', 0) for signal in today_signals)
TotalRisk(sigs) ==
    IF sigs = <<>> THEN 0
    ELSE (IF "risk_amount" \in Head(sigs).has THEN Head(sigs).risk_amount ELSE 0)
         + TotalRisk(Tail(sigs))

\* a plausible slip: the ceiling itself counts as exceeded
RiskLimitExceededAtCeiling(daily_risk_percent) == RGe(daily_risk_percent, max_daily_risk)

\* daily_risk_percent > self.max_daily_risk
RiskLimitExceeded(daily_risk_percent) == RGt(daily_risk_percent, max_daily_risk)

\* the body of check_daily_risk_limit once balance and total_risk are known
DailyRiskOf(today_signals, total_risk, balance) ==
    IF balance = R(0) THEN [status |-> "ZeroDivisionError"]
    ELSE [status |-> "ok",
          daily_risk_percent |-> RDiv(R(total_risk), balance),
          risk_limit_exceeded |-> RiskLimitExceeded(RDiv(R(total_risk), balance)),
          remaining_risk |-> RMax(R(0), RSub(RMul(max_daily_risk, balance), R(total_risk))),
          today_signals |-> Len(today_signals)]

\* RiskManagement.check_daily_risk_limit; signal['timestamp'] raises KeyError
\* on a signal without a timestamp
check_daily_risk_limit(sigs, balance_arg) ==
    IF \E i \in 1 .. Len(sigs) : "timestamp" \notin sigs[i].has
    THEN [status |-> "KeyError"]
    ELSE DailyRiskOf(TodaySignals(sigs), TotalRisk(TodaySignals(sigs)),
                     IF IsNone(balance_arg) THEN R(default_balance) ELSE balance_arg)

\* bound: longest list of signals handed to the daily check
MaxDaily == 3

InitDaily ==
    /\ position = [entry_price |-> 100, atr |-> 1, direction |-> "long"]
    /\ stops = <<>>
    /\ sizing = [called |-> FALSE]
    /\ data = <<>>
    /\ out = [op |-> "none"]
    /\ signals = <<>>
    /\ metrics = [called |-> FALSE]
    /\ frame = NoFrame
    /\ objects = {}

\* the caller appends a signal to the list it keeps
AddDailySignal ==
    /\ Len(signals) < MaxDaily
    /\ \E sig \in DailySignalSet : signals' = Append(signals, sig)
    /\ UNCHANGED <<position, stops, sizing, data, out, metrics, frame, objects>>

CheckDailyRiskLimit ==
    /\ \E balance \in DailyBalances :
          metrics' = [called |-> TRUE, input |-> signals, balance |-> balance,
                      result |-> check_daily_risk_limit(signals, balance)]
    /\ UNCHANGED <<position, stops, sizing, data, out, signals, frame, objects>>

NextDaily == AddDailySignal \/ CheckDailyRiskLimit

SpecDaily == InitDaily /\ [][NextDaily]_vars

\* today's risk of the list the check was called with, cents of the balance
\* it was called with
TodayRisk == TotalRisk(SelectSeq(metrics.input, LAMBDA x : x.day = 0))
BalanceUsed == IF IsNone(metrics.balance) THEN default_balance ELSE metrics.balance.n

\* C15: check_daily_risk_limit sums risk_amount over today's signals only
\* (signals of other dates change nothing in the result);
\* risk_limit_exceeded is true exactly when that sum / balance > 0.05, so a sum
\* of exactly 5% of the balance is not exceeded; remaining_risk is
\* max(0, 0.05 * balance - sum), never negative and 0 whenever the limit is
\* exceeded; today_signals is the number of today's signals.
C15_DailyLimit ==
    (metrics.called /\ metrics.result.status = "ok") =>
        /\ metrics.result =
              check_daily_risk_limit(SelectSeq(metrics.input, LAMBDA x : x.day = 0),
                                     metrics.balance)
        /\ metrics.result.risk_limit_exceeded = (100 * TodayRisk > 5 * BalanceUsed)
        /\ metrics.result.remaining_risk =
              (IF 5 * BalanceUsed > 100 * TodayRisk
               THEN Rat(5 * BalanceUsed - 100 * TodayRisk, 100) ELSE R(0))
        /\ RGe(metrics.result.remaining_risk, R(0))
        /\ metrics.result.risk_limit_exceeded => metrics.result.remaining_risk = R(0)
        /\ metrics.result.today_signals =
              Cardinality({i \in 1 .. Len(metrics.input) : metrics.input[i].day = 0})

\* today's risk is exactly 5% of the balance, next to a signal of another date
C15_Witness ==
    /\ metrics.called
    /\ metrics.result.status = "ok"
    /\ 100 * TodayRisk = 5 * BalanceUsed
    /\ \E i \in 1 .. Len(metrics.input) : metrics.input[i].day # 0
    /\ ~metrics.result.risk_limit_exceeded

\* the consolidation test of crt passes on the series
Consolidating ==
    /\ Len(data) >= 20
    /\ 1000 * (MaxHighLast(6) - MinLowLast(6)) <= 5 * MinLowLast(6)
    /\ 40 * VolumeLast(6) < 6 * VolumeLast(20)

\* C16: on every series whose bars all have high >= max(open, close) and
\* low <= min(open, close), crt returns no candidate: the last close is
\* compared with the extremes of a window that holds the last bar itself.
C16_CrtNeverFires ==
    (out.op = "crt" /\ \A i \in 1 .. Len(data) : WellFormed(data[i])) =>
        /\ ~Fired(out.val)
        /\ Len(data) > 0 => out.val = NoCandidate

\* crt has returned on a consolidating series of well-formed bars whose last
\* close is the high of the range
C16_Witness ==
    /\ out.op = "crt"
    /\ \A i \in 1 .. Len(data) : WellFormed(data[i])
    /\ Consolidating
    /\ BarFromEnd(1).close = MaxHighLast(6)
    /\ out.val = NoCandidate

-----------------------------------------------------------------------------
(* ICTAnalysis.detect_liquidity_events                                     *)
(*                                                                         *)
(* Positions are those of the code: i counts from 0 in recent_data, whose  *)
(* bar at position i is recent_data[i + 1] here.                           *)

\* a plausible slip: a window long enough for the run scan
EventWindowWide(lookback) == lookback + 10

\* self.data.tail(lookback + 3)
EventWindow(lookback) == lookback + 3

\* col.iloc[i-20:i]: a negative start counts from the end and is clipped
Before20(col, i) ==
    SubSeq(col, (IF i - 20 >= 0 THEN i - 20 ELSE Max2(0, Len(col) + i - 20)) + 1, i)

BullishSweepAt(recent_data, avg_volume, i) ==
    /\ RGt(R(recent_data[i + 1].high), SeriesMax(Before20(Highs(recent_data), i)))
    /\ recent_data[i + 2].close < recent_data[i + 1].open
    /\ RGt(R(recent_data[i + 1].volume), RMul(R(2), avg_volume))

BearishSweepAt(recent_data, avg_volume, i) ==
    /\ RLt(R(recent_data[i + 1].low), SeriesMin(Before20(Lows(recent_data), i)))
    /\ recent_data[i + 2].close > recent_data[i + 1].open
    /\ RGt(R(recent_data[i + 1].volume), RMul(R(2), avg_volume))

RECURSIVE SweepsFrom(_, _, _)
\* events['sweeps'] from position i on: for i in range(lookback, len - 1)
SweepsFrom(recent_data, avg_volume, i) ==
    IF i > Len(recent_data) - 2 THEN <<>>
    ELSE (IF BullishSweepAt(recent_data, avg_volume, i)
          THEN <<[type |-> "bullish", price |-> recent_data[i + 1].high, timestamp |-> i]>>
          ELSE <<>>)
         \o (IF BearishSweepAt(recent_data, avg_volume, i)
             THEN <<[type |-> "bearish", price |-> recent_data[i + 1].low, timestamp |-> i]>>
             ELSE <<>>)
         \o SweepsFrom(recent_data, avg_volume, i + 1)

\* the zone of a close
ZoneOf(price, liquidity_zones) ==
    IF RGe(R(price), liquidity_zones.premium) THEN "premium"
    ELSE IF RLe(R(price), liquidity_zones.discount) THEN "discount"
    ELSE "equilibrium"

\* zone != current_zone at position i of the scan that starts at lookback
ZoneChangesAt(recent_data, liquidity_zones, lookback, i) ==
    \/ i = lookback
    \/ ZoneOf(recent_data[i + 1].close, liquidity_zones)
          # ZoneOf(recent_data[i].close, liquidity_zones)

\* all(close.iloc[i:i+5] > premium) / all(close.iloc[i:i+5] < discount)
Sustains(recent_data, liquidity_zones, zone, i) ==
    \A k \in (i + 1) .. (i + 5) :
        IF zone = "premium" THEN RGt(R(recent_data[k].close), liquidity_zones.premium)
        ELSE RLt(R(recent_data[k].close), liquidity_zones.discount)

RunAt(recent_data, avg_volume, liquidity_zones, lookback, i) ==
    /\ ZoneChangesAt(recent_data, liquidity_zones, lookback, i)
    /\ Sustains(recent_data, liquidity_zones,
                ZoneOf(recent_data[i + 1].close, liquidity_zones), i)
    /\ RGt(Rat(SumOver(Volumes(recent_data), i + 1, i + 5), 5),
           RMul(Rat(3, 2), avg_volume))

\* the positions of the run scan: for i in range(lookback, len - 5)
RunPositions(recent_data, lookback) ==
    SelectSeq([k \in 1 .. Max2(0, Len(recent_data) - 5 - lookback) |-> lookback + k - 1],
              LAMBDA i : TRUE)

\* events['runs'] for the scan positions at which a run is recognised
RunsAt(recent_data, liquidity_zones, starts) ==
    [k \in 1 .. Len(starts) |->
        [type |-> ZoneOf(recent_data[starts[k] + 1].close, liquidity_zones),
         start_price |-> recent_data[starts[k] + 1].close,
         end_price |-> recent_data[starts[k] + 5].close,
         start_timestamp |-> starts[k],
         end_timestamp |-> starts[k] + 4]]

\* the body of detect_liquidity_events once the window, its mean volume and the
\* PD arrays are known.  In the equilibrium branch `s1 and s2` on two Series
\* raises ValueError.
EventsOf(recent_data, avg_volume, liquidity_zones, lookback) ==
    IF \E k \in 1 .. Len(RunPositions(recent_data, lookback)) :
          /\ ZoneChangesAt(recent_data, liquidity_zones, lookback,
                           RunPositions(recent_data, lookback)[k])
          /\ ZoneOf(recent_data[RunPositions(recent_data, lookback)[k] + 1].close,
                    liquidity_zones) = "equilibrium"
    THEN [status |-> "ValueError"]
    ELSE [status |-> "ok",
          sweeps |-> SweepsFrom(recent_data, avg_volume, lookback),
          runs |-> RunsAt(recent_data, liquidity_zones,
                          SelectSeq(RunPositions(recent_data, lookback),
                                    LAMBDA i : RunAt(recent_data, avg_volume,
                                                     liquidity_zones, lookback, i)))]

\* ICTAnalysis.detect_liquidity_events
detect_liquidity_events(d, lookback) ==
    EventsOf(tail(d, EventWindow(lookback)),
             SeriesMean(Volumes(tail(d, EventWindow(lookback)))),
             find_liquidity_pools(d, lookback, Rat(5, 1000)).pd_arrays,
             lookback)

\* bound: longest series handed to the event detection
MaxEventBars == 8

\* a quiet flat bar, a busy wide bar, and a busy bar that exceeds it both ways
EventBars ==
    {[open |-> 1000, high |-> 1000, low |-> 1000, close |-> 1000, volume |-> 10, q |-> 0],
     [open |-> 1005, high |-> 1010, low |-> 1000, close |-> 1004, volume |-> 1000, q |-> 0],
     [open |-> 1003, high |-> 1012, low |-> 998, close |-> 1004, volume |-> 1000, q |-> 0]}

EventLookbacks == {0, 1, 2}

InitEvents ==
    /\ position = [entry_price |-> 100, atr |-> 1, direction |-> "long"]
    /\ stops = <<>>
    /\ sizing = [called |-> FALSE]
    /\ data \in UNION {[1 .. n -> EventBars] : n \in 0 .. MaxEventBars}
    /\ out = [op |-> "none"]
    /\ signals = <<>>
    /\ metrics = [called |-> FALSE]
    /\ frame = NoFrame
    /\ objects = {}

DetectLiquidityEvents ==
    /\ NoCallYet
    /\ \E lookback \in EventLookbacks :
          out' = [op |-> "detect_liquidity_events", lookback |-> lookback,
                  val |-> detect_liquidity_events(data, lookback)]
    /\ SeriesFrame

NextEvents == DetectLiquidityEvents

SpecEvents == InitEvents /\ [][NextEvents]_vars

\* C17: detect_liquidity_events returns an empty 'runs' list for every series
\* and lookback, the run scan range(lookback, len(window) - 5) being empty on a
\* window of at most lookback + 3 bars; sweeps are found only at the window
\* positions lookback .. len(window) - 2, at most two bars.
C17_NoRuns ==
    out.op = "detect_liquidity_events" =>
        /\ out.val.status = "ok"
        /\ out.val.runs = <<>>
        /\ \A k \in 1 .. Len(out.val.sweeps) :
              /\ out.val.sweeps[k].timestamp >= out.lookback
              /\ out.val.sweeps[k].timestamp <= Min2(Len(data), out.lookback + 3) - 2
        /\ Cardinality({out.val.sweeps[k].timestamp : k \in 1 .. Len(out.val.sweeps)}) <= 2

\* the detection returned sweeps at two window positions of a series long
\* enough to hold a five-bar run after the lookback
C17_Witness ==
    /\ out.op = "detect_liquidity_events"
    /\ Len(data) >= out.lookback + 6
    /\ out.val.status = "ok"
    /\ Cardinality({out.val.sweeps[k].timestamp : k \in 1 .. Len(out.val.sweeps)}) = 2
    /\ out.val.runs = <<>>

\* no bar of the series falls in the current calendar year
NoBarThisYear == \A i \in 1 .. Len(data) : data[i].q = 0

\* C18: when no bar falls in the current calendar year (all quarterly levels
\* are 0) and prices are positive, determine_bias is never bearish: it is
\* bullish exactly when the slope of the 20-bar SMA is positive (the last close
\* above the close 20 bars before it) and neutral otherwise; market_maker_model
\* returns no candidate and generate_entries has no market_maker entry.
C18_StaleYearBias ==
    NoBarThisYear =>
        /\ (out.op = "determine_bias" /\ Len(data) > 0) =>
              /\ out.val \in {"bullish", "neutral"}
              /\ out.val = "bullish" <=>
                    /\ Len(data) >= 21
                    /\ BarFromEnd(1).close > BarFromEnd(21).close
        /\ out.op = "market_maker_model" => ~Fired(out.val)
        /\ (out.op = "generate_entries" /\ out.val.status = "ok") =>
              "market_maker" \notin DOMAIN out.val.entries

\* market_maker_model has returned on a series outside the current year whose
\* bias is bullish and whose last bar is a busy bullish bar
C18_Witness ==
    /\ out.op = "market_maker_model"
    /\ NoBarThisYear
    /\ Len(data) >= 21
    /\ determine_bias(data) = "bullish"
    /\ BarFromEnd(1).close > BarFromEnd(1).open
    /\ 2 * BarFromEnd(1).volume > VolumeLast(3)
    /\ out.val = NoCandidate

====
